---- MODULE Spec2Model ----
(***************************************************************************)
(* A model of the rust-geom primitives: Rect (src/src/rect.rs) and Matrix4 *)
(* (src/src/matrix.rs).  Every operation of the library is a pure function *)
(* of its operands, so the state is the operand(s) an operation is applied *)
(* to and the call made on it together with what it returned: a behaviour  *)
(* draws the operand, then makes one call.                                 *)
(*                                                                         *)
(* Rect<T> is generic over T: PartialOrd + Add + Sub; its tests            *)
(* instantiate T with i32/u32.  The model instantiates T with integers of  *)
(* small magnitude, where i32 arithmetic does not overflow.                *)
(*                                                                         *)
(* Matrix4<T> is generic over T: Float.  The model draws its fields from   *)
(* small integers: on integer-valued floats of this magnitude every sum    *)
(* and product of the library is exact, so integer arithmetic is what the  *)
(* code computes.  Rounding, overflow and the non-finite values of a       *)
(* floating-point type are outside the inputs the model draws.             *)
(***************************************************************************)
EXTENDS Integers, FiniteSets, Sequences, TLC

VARIABLES
    self,   \* the rect an operation of Rect is called on
    m,      \* the matrix an operation of Matrix4 is called on
    n,      \* the matrix passed to Matrix4::mul
    edits,  \* how many fields of m and n have been assigned so far
    res     \* the call made, with its arguments and what it returned

vars == <<self, m, n, edits, res>>

(***************************************************************************)
(* Bounds of the model.                                                    *)
(***************************************************************************)
\* rect origins are drawn from -1..MaxCoord on each axis
MaxCoord == 1
\* rect widths and heights are drawn from -1..MaxSize
MaxSize == 3
\* translate deltas and inflate amounts are drawn from -MaxDelta..MaxDelta
MaxDelta == 1
\* matrix fields are assigned values from -1..MaxField
MaxField == 2
\* at most MaxEdits fields of the two matrices are assigned after identity()
MaxEdits == 2
\* points given to transform_point have coordinates in -1..MaxPoint
MaxPoint == 1
\* the bounds of an ortho box are drawn from the integers -1..MaxOrtho and 1/10
MaxOrtho == 1

Coords == (0 - 1)..MaxCoord
Sizes == (0 - 1)..MaxSize
Deltas == (0 - MaxDelta)..MaxDelta
\* every coordinate an edge of an input rect can have, and one beyond
PointCoords == (0 - 3)..(MaxCoord + MaxSize + 1)

(***************************************************************************)
(* Option<T>                                                               *)
(***************************************************************************)
None == [some |-> FALSE]
Some(v) == [some |-> TRUE, val |-> v]
\* what a call that panics (Option::unwrap on None) leaves to its caller
Panic == [panic |-> TRUE]

(***************************************************************************)
(* Point2D, Size2D, Rect                                                   *)
(***************************************************************************)
Point2D(x, y) == [x |-> x, y |-> y]

Size2D(width, height) == [width |-> width, height |-> height]

Rect(origin, size) == [origin |-> origin, size |-> size]

min(x, y) == IF x <= y THEN x ELSE y

max(x, y) == IF x >= y THEN x ELSE y

intersects_NoWidth(r, other) ==
    /\ r.origin.x < other.origin.x
    /\ other.origin.x < r.origin.x + r.size.width
    /\ r.origin.y < other.origin.y + other.size.height
    /\ other.origin.y < r.origin.y + r.size.height

intersects_Inclusive(r, other) ==
    /\ r.origin.x <= other.origin.x + other.size.width
    /\ other.origin.x <= r.origin.x + r.size.width
    /\ r.origin.y <= other.origin.y + other.size.height
    /\ other.origin.y <= r.origin.y + r.size.height

intersects(r, other) ==
    /\ r.origin.x < other.origin.x + other.size.width
    /\ other.origin.x < r.origin.x + r.size.width
    /\ r.origin.y < other.origin.y + other.size.height
    /\ other.origin.y < r.origin.y + r.size.height

max_x(r) == r.origin.x + r.size.width

min_x(r) == r.origin.x

max_y(r) == r.origin.y + r.size.height

min_y(r) == r.origin.y

max_point(r) == Point2D(max_x(r), max_y(r))

intersection_SizeFromSelf(r, other) ==
    IF ~intersects(r, other) THEN None
    ELSE LET upper_left == Point2D(max(min_x(r), min_x(other)),
                                   max(min_y(r), min_y(other)))
             lower_right == Point2D(min(max_x(r), max_x(other)),
                                    min(max_y(r), max_y(other)))
         IN  Some(Rect(upper_left, Size2D(lower_right.x - min_x(r),
                                          lower_right.y - min_y(r))))

intersection_MinOrigin(r, other) ==
    IF ~intersects(r, other) THEN None
    ELSE LET upper_left == Point2D(min(min_x(r), min_x(other)),
                                   min(min_y(r), min_y(other)))
             lower_right == Point2D(min(max_x(r), max_x(other)),
                                    min(max_y(r), max_y(other)))
         IN  Some(Rect(upper_left, Size2D(lower_right.x - upper_left.x,
                                          lower_right.y - upper_left.y)))

intersection(r, other) ==
    IF ~intersects(r, other) THEN None
    ELSE LET upper_left == Point2D(max(min_x(r), min_x(other)),
                                   max(min_y(r), min_y(other)))
             lower_right == Point2D(min(max_x(r), max_x(other)),
                                    min(max_y(r), max_y(other)))
         IN  Some(Rect(upper_left, Size2D(lower_right.x - upper_left.x,
                                          lower_right.y - upper_left.y)))

union_SizeFromSelf(r, other) ==
    LET upper_left == Point2D(min(min_x(r), min_x(other)),
                              min(min_y(r), min_y(other)))
        lower_right == Point2D(max(max_x(r), max_x(other)),
                               max(max_y(r), max_y(other)))
    IN  Rect(upper_left, Size2D(lower_right.x - min_x(r),
                                lower_right.y - min_y(r)))

union_OriginFromSelf(r, other) ==
    LET upper_left == Point2D(min(min_x(r), min_x(other)),
                              min(min_y(r), min_y(other)))
        lower_right == Point2D(max(max_x(r), max_x(other)),
                               max(max_y(r), max_y(other)))
    IN  Rect(r.origin, Size2D(lower_right.x - upper_left.x,
                              lower_right.y - upper_left.y))

union(r, other) ==
    LET upper_left == Point2D(min(min_x(r), min_x(other)),
                              min(min_y(r), min_y(other)))
        lower_right == Point2D(max(max_x(r), max_x(other)),
                               max(max_y(r), max_y(other)))
    IN  Rect(upper_left, Size2D(lower_right.x - upper_left.x,
                                lower_right.y - upper_left.y))

translate_MovesSize(r, other) ==
    Rect(Point2D(r.origin.x + other.x, r.origin.y + other.y),
         Size2D(r.size.width + other.x, r.size.height + other.y))

translate(r, other) ==
    Rect(Point2D(r.origin.x + other.x, r.origin.y + other.y), r.size)

contains_InclusiveMax(r, other) ==
    /\ r.origin.x <= other.x
    /\ other.x <= r.origin.x + r.size.width
    /\ r.origin.y <= other.y
    /\ other.y <= r.origin.y + r.size.height

contains(r, other) ==
    /\ r.origin.x <= other.x
    /\ other.x < r.origin.x + r.size.width
    /\ r.origin.y <= other.y
    /\ other.y < r.origin.y + r.size.height

inflate_OneSided(r, width, height) ==
    Rect(Point2D(r.origin.x - width, r.origin.y - height),
         Size2D(r.size.width + width, r.size.height + height))

inflate(r, width, height) ==
    Rect(Point2D(r.origin.x - width, r.origin.y - height),
         Size2D(r.size.width + width + width, r.size.height + height + height))

(***************************************************************************)
(* Numeric casts of a unit-tagged rect.  The unit tag has no run-time      *)
(* representation, so Rect<Length<Unit, T>> is the rect of its T values.   *)
(***************************************************************************)
CastTargets == {"f32", "uint"}

\* std::num::NumCast::from for an integer source: None when the value is
\* not representable in the target type
NumCast_from(v, target) ==
    IF target = "uint" /\ v < 0 THEN None ELSE Some(v)

\* Point2D::cast: the cast point, or None when a coordinate is not representable
Point2D_cast(p, target) ==
    LET x == NumCast_from(p.x, target)
        y == NumCast_from(p.y, target)
    IN  IF x.some /\ y.some THEN Some(Point2D(x.val, y.val)) ELSE None

\* Size2D::cast: the cast size, or None when a component is not representable
Size2D_cast(s, target) ==
    LET width == NumCast_from(s.width, target)
        height == NumCast_from(s.height, target)
    IN  IF width.some /\ height.some THEN Some(Size2D(width.val, height.val)) ELSE None

cast(r, target) ==
    LET origin == Point2D_cast(r.origin, target)
        size == Size2D_cast(r.size, target)
    IN  IF origin.some /\ size.some THEN Some(Rect(origin.val, size.val)) ELSE None

\* Option::unwrap
unwrap(o) == IF o.some THEN o.val ELSE Panic

as_f32(r) == unwrap(cast(r, "f32"))

as_uint(r) == unwrap(cast(r, "uint"))

(***************************************************************************)
(* Matrix4                                                                 *)
(***************************************************************************)
Zero == 0

One == 1

Matrix4(m11, m12, m13, m14, m21, m22, m23, m24, m31, m32, m33, m34, m41, m42, m43, m44) ==
    [m11 |-> m11, m12 |-> m12, m13 |-> m13, m14 |-> m14,
     m21 |-> m21, m22 |-> m22, m23 |-> m23, m24 |-> m24,
     m31 |-> m31, m32 |-> m32, m33 |-> m33, m34 |-> m34,
     m41 |-> m41, m42 |-> m42, m43 |-> m43, m44 |-> m44]

Fields == {"m11", "m12", "m13", "m14", "m21", "m22", "m23", "m24",
           "m31", "m32", "m33", "m34", "m41", "m42", "m43", "m44"}

\* the product with the operands exchanged: self's rows by m's columns
mul_SelfFirst(self_, m_) ==
    Matrix4(self_.m11*m_.m11 + self_.m12*m_.m21 + self_.m13*m_.m31 + self_.m14*m_.m41,
            self_.m11*m_.m12 + self_.m12*m_.m22 + self_.m13*m_.m32 + self_.m14*m_.m42,
            self_.m11*m_.m13 + self_.m12*m_.m23 + self_.m13*m_.m33 + self_.m14*m_.m43,
            self_.m11*m_.m14 + self_.m12*m_.m24 + self_.m13*m_.m34 + self_.m14*m_.m44,
            self_.m21*m_.m11 + self_.m22*m_.m21 + self_.m23*m_.m31 + self_.m24*m_.m41,
            self_.m21*m_.m12 + self_.m22*m_.m22 + self_.m23*m_.m32 + self_.m24*m_.m42,
            self_.m21*m_.m13 + self_.m22*m_.m23 + self_.m23*m_.m33 + self_.m24*m_.m43,
            self_.m21*m_.m14 + self_.m22*m_.m24 + self_.m23*m_.m34 + self_.m24*m_.m44,
            self_.m31*m_.m11 + self_.m32*m_.m21 + self_.m33*m_.m31 + self_.m34*m_.m41,
            self_.m31*m_.m12 + self_.m32*m_.m22 + self_.m33*m_.m32 + self_.m34*m_.m42,
            self_.m31*m_.m13 + self_.m32*m_.m23 + self_.m33*m_.m33 + self_.m34*m_.m43,
            self_.m31*m_.m14 + self_.m32*m_.m24 + self_.m33*m_.m34 + self_.m34*m_.m44,
            self_.m41*m_.m11 + self_.m42*m_.m21 + self_.m43*m_.m31 + self_.m44*m_.m41,
            self_.m41*m_.m12 + self_.m42*m_.m22 + self_.m43*m_.m32 + self_.m44*m_.m42,
            self_.m41*m_.m13 + self_.m42*m_.m23 + self_.m43*m_.m33 + self_.m44*m_.m43,
            self_.m41*m_.m14 + self_.m42*m_.m24 + self_.m43*m_.m34 + self_.m44*m_.m44)

\* the product with the fourth term of the last row dropped
mul_DropsLastTerm(self_, m_) ==
    Matrix4(m_.m11*self_.m11 + m_.m12*self_.m21 + m_.m13*self_.m31 + m_.m14*self_.m41,
            m_.m11*self_.m12 + m_.m12*self_.m22 + m_.m13*self_.m32 + m_.m14*self_.m42,
            m_.m11*self_.m13 + m_.m12*self_.m23 + m_.m13*self_.m33 + m_.m14*self_.m43,
            m_.m11*self_.m14 + m_.m12*self_.m24 + m_.m13*self_.m34 + m_.m14*self_.m44,
            m_.m21*self_.m11 + m_.m22*self_.m21 + m_.m23*self_.m31 + m_.m24*self_.m41,
            m_.m21*self_.m12 + m_.m22*self_.m22 + m_.m23*self_.m32 + m_.m24*self_.m42,
            m_.m21*self_.m13 + m_.m22*self_.m23 + m_.m23*self_.m33 + m_.m24*self_.m43,
            m_.m21*self_.m14 + m_.m22*self_.m24 + m_.m23*self_.m34 + m_.m24*self_.m44,
            m_.m31*self_.m11 + m_.m32*self_.m21 + m_.m33*self_.m31 + m_.m34*self_.m41,
            m_.m31*self_.m12 + m_.m32*self_.m22 + m_.m33*self_.m32 + m_.m34*self_.m42,
            m_.m31*self_.m13 + m_.m32*self_.m23 + m_.m33*self_.m33 + m_.m34*self_.m43,
            m_.m31*self_.m14 + m_.m32*self_.m24 + m_.m33*self_.m34 + m_.m34*self_.m44,
            m_.m41*self_.m11 + m_.m42*self_.m21 + m_.m43*self_.m31,
            m_.m41*self_.m12 + m_.m42*self_.m22 + m_.m43*self_.m32,
            m_.m41*self_.m13 + m_.m42*self_.m23 + m_.m43*self_.m33,
            m_.m41*self_.m14 + m_.m42*self_.m24 + m_.m43*self_.m34)

mul(self_, m_) ==
    Matrix4(m_.m11*self_.m11 + m_.m12*self_.m21 + m_.m13*self_.m31 + m_.m14*self_.m41,
            m_.m11*self_.m12 + m_.m12*self_.m22 + m_.m13*self_.m32 + m_.m14*self_.m42,
            m_.m11*self_.m13 + m_.m12*self_.m23 + m_.m13*self_.m33 + m_.m14*self_.m43,
            m_.m11*self_.m14 + m_.m12*self_.m24 + m_.m13*self_.m34 + m_.m14*self_.m44,
            m_.m21*self_.m11 + m_.m22*self_.m21 + m_.m23*self_.m31 + m_.m24*self_.m41,
            m_.m21*self_.m12 + m_.m22*self_.m22 + m_.m23*self_.m32 + m_.m24*self_.m42,
            m_.m21*self_.m13 + m_.m22*self_.m23 + m_.m23*self_.m33 + m_.m24*self_.m43,
            m_.m21*self_.m14 + m_.m22*self_.m24 + m_.m23*self_.m34 + m_.m24*self_.m44,
            m_.m31*self_.m11 + m_.m32*self_.m21 + m_.m33*self_.m31 + m_.m34*self_.m41,
            m_.m31*self_.m12 + m_.m32*self_.m22 + m_.m33*self_.m32 + m_.m34*self_.m42,
            m_.m31*self_.m13 + m_.m32*self_.m23 + m_.m33*self_.m33 + m_.m34*self_.m43,
            m_.m31*self_.m14 + m_.m32*self_.m24 + m_.m33*self_.m34 + m_.m34*self_.m44,
            m_.m41*self_.m11 + m_.m42*self_.m21 + m_.m43*self_.m31 + m_.m44*self_.m41,
            m_.m41*self_.m12 + m_.m42*self_.m22 + m_.m43*self_.m32 + m_.m44*self_.m42,
            m_.m41*self_.m13 + m_.m42*self_.m23 + m_.m43*self_.m33 + m_.m44*self_.m43,
            m_.m41*self_.m14 + m_.m42*self_.m24 + m_.m43*self_.m34 + m_.m44*self_.m44)

transform_point(self_, p) ==
    Point2D(p.x * self_.m11 + p.y * self_.m21 + self_.m41,
            p.x * self_.m12 + p.y * self_.m22 + self_.m42)

identity ==
    Matrix4(One, Zero, Zero, Zero,
            Zero, One, Zero, Zero,
            Zero, Zero, One, Zero,
            Zero, Zero, Zero, One)

\* Rect::zero()
zero == Rect(Point2D(Zero, Zero), Size2D(Zero, Zero))

(***************************************************************************)
(* ortho divides, so its scalars are fractions: a finite value of T: Float *)
(* is [num, den] in lowest terms with den > 0, computed exactly, and       *)
(* NonFinite stands for what a division by zero yields (an infinity or a   *)
(* NaN) and for everything computed from it.                               *)
(***************************************************************************)
RECURSIVE GCD(_, _)
GCD(a, b) == IF b = 0 THEN a ELSE GCD(b, a % b)

Abs(a) == IF a < 0 THEN 0 - a ELSE a

Fraction(num, den) ==
    LET g == GCD(Abs(num), Abs(den))
        s == IF den < 0 THEN 0 - 1 ELSE 1
    IN  [num |-> (s * num) \div g, den |-> (s * den) \div g]

NonFinite == [nonfinite |-> TRUE]

\* NumCast::from of an integer literal
NumCast_int(v) == Fraction(v, 1)

Float_add(x, y) ==
    IF x = NonFinite \/ y = NonFinite THEN NonFinite
    ELSE Fraction(x.num * y.den + y.num * x.den, x.den * y.den)

Float_sub(x, y) ==
    IF x = NonFinite \/ y = NonFinite THEN NonFinite
    ELSE Fraction(x.num * y.den - y.num * x.den, x.den * y.den)

Float_mul(x, y) ==
    IF x = NonFinite \/ y = NonFinite THEN NonFinite
    ELSE Fraction(x.num * y.num, x.den * y.den)

Float_div(x, y) ==
    IF x = NonFinite \/ y = NonFinite THEN NonFinite
    ELSE IF y.num = 0 THEN NonFinite
    ELSE Fraction(x.num * y.den, x.den * y.num)

Float_neg(x) ==
    IF x = NonFinite THEN NonFinite ELSE Fraction(0 - x.num, x.den)

\* the translation row without its negation
ortho_NoNegate(left, right, bottom, top, near, far) ==
    LET two == NumCast_int(2)
        one == NumCast_int(One)
        zero_ == NumCast_int(Zero)
        tx == Float_div(Float_add(right, left), Float_sub(right, left))
        ty == Float_div(Float_add(top, bottom), Float_sub(top, bottom))
        tz == Float_div(Float_add(far, near), Float_sub(far, near))
    IN  Matrix4(Float_div(two, Float_sub(right, left)), zero_, zero_, zero_,
                zero_, Float_div(two, Float_sub(top, bottom)), zero_, zero_,
                zero_, zero_, Float_div(Float_neg(two), Float_sub(far, near)), zero_,
                tx, ty, tz, one)

ortho(left, right, bottom, top, near, far) ==
    LET two == NumCast_int(2)
        one == NumCast_int(One)
        zero_ == NumCast_int(Zero)
        tx == Float_neg(Float_div(Float_add(right, left), Float_sub(right, left)))
        ty == Float_neg(Float_div(Float_add(top, bottom), Float_sub(top, bottom)))
        tz == Float_neg(Float_div(Float_add(far, near), Float_sub(far, near)))
    IN  Matrix4(Float_div(two, Float_sub(right, left)), zero_, zero_, zero_,
                zero_, Float_div(two, Float_sub(top, bottom)), zero_, zero_,
                zero_, zero_, Float_div(Float_neg(two), Float_sub(far, near)), zero_,
                tx, ty, tz, one)

\* Matrix4::transform_point on a matrix of fractions
Float_transform_point(self_, p) ==
    Point2D(Float_add(Float_add(Float_mul(p.x, self_.m11), Float_mul(p.y, self_.m21)),
                      self_.m41),
            Float_add(Float_add(Float_mul(p.x, self_.m12), Float_mul(p.y, self_.m22)),
                      self_.m42))

\* ApproxEq::approx_eq of two scalars: they differ by at most 1e-5
ApproxEq_approx_eq(x, y) ==
    LET d == Float_sub(x, y)
    IN  /\ d # NonFinite
        /\ Abs(d.num) * 100000 <= d.den

approx_eq(self_, other) ==
    \A f \in Fields : ApproxEq_approx_eq(self_[f], other[f])

(***************************************************************************)
(* The rects, points and amounts the operations are applied to.            *)
(***************************************************************************)
RectInputs ==
    { Rect(Point2D(x, y), Size2D(w, h)) : x \in Coords, y \in Coords,
                                          w \in Sizes, h \in Sizes }

PointInputs == { Point2D(x, y) : x \in PointCoords, y \in PointCoords }

DeltaInputs == { Point2D(x, y) : x \in Deltas, y \in Deltas }

FieldInputs == (0 - 1)..MaxField

MatrixPointInputs ==
    { Point2D(x, y) : x \in (0 - 1)..MaxPoint, y \in (0 - 1)..MaxPoint }

NoCall == [op |-> "none"]

(***************************************************************************)
(* Spec: one call on a rect.                                               *)
(***************************************************************************)
Init ==
    /\ self \in RectInputs
    /\ m = identity
    /\ n = identity
    /\ edits = 0
    /\ res = NoCall

Intersects ==
    /\ res = NoCall
    /\ \E other \in RectInputs :
        /\ res' = [op |-> "intersects", other |-> other, val |-> intersects(self, other)]
        /\ UNCHANGED <<self, m, n, edits>>

Intersection ==
    /\ res = NoCall
    /\ \E other \in RectInputs :
        /\ res' = [op |-> "intersection", other |-> other, val |-> intersection(self, other)]
        /\ UNCHANGED <<self, m, n, edits>>

Union ==
    /\ res = NoCall
    /\ \E other \in RectInputs :
        /\ res' = [op |-> "union", other |-> other, val |-> union(self, other)]
        /\ UNCHANGED <<self, m, n, edits>>

Translate ==
    /\ res = NoCall
    /\ \E other \in DeltaInputs :
        /\ res' = [op |-> "translate", other |-> other, val |-> translate(self, other)]
        /\ UNCHANGED <<self, m, n, edits>>

Contains ==
    /\ res = NoCall
    /\ \E other \in PointInputs :
        /\ res' = [op |-> "contains", other |-> other, val |-> contains(self, other)]
        /\ UNCHANGED <<self, m, n, edits>>

Inflate ==
    /\ res = NoCall
    /\ \E width \in Deltas, height \in Deltas :
        /\ res' = [op |-> "inflate", width |-> width, height |-> height,
                   val |-> inflate(self, width, height)]
        /\ UNCHANGED <<self, m, n, edits>>

Cast ==
    /\ res = NoCall
    /\ \E target \in CastTargets :
        /\ res' = [op |-> "cast", target |-> target, val |-> cast(self, target)]
        /\ UNCHANGED <<self, m, n, edits>>

AsF32 ==
    /\ res = NoCall
    /\ res' = [op |-> "as_f32", val |-> as_f32(self)]
    /\ UNCHANGED <<self, m, n, edits>>

AsUint ==
    /\ res = NoCall
    /\ res' = [op |-> "as_uint", val |-> as_uint(self)]
    /\ UNCHANGED <<self, m, n, edits>>

Next ==
    \/ Intersects
    \/ Intersection
    \/ Union
    \/ Translate
    \/ Contains
    \/ Inflate
    \/ Cast
    \/ AsF32
    \/ AsUint

Spec == Init /\ [][Next]_vars

(***************************************************************************)
(* SpecMatrix: two matrices are built from identity() by assigning fields, *)
(* then one call is made on them.                                          *)
(***************************************************************************)
InitMatrix ==
    /\ self = zero
    /\ m = identity
    /\ n = identity
    /\ edits = 0
    /\ res = NoCall

SetFieldM ==
    /\ res = NoCall
    /\ edits < MaxEdits
    /\ \E f \in Fields, v \in FieldInputs :
        /\ v # m[f]
        /\ m' = [m EXCEPT ![f] = v]
        /\ edits' = edits + 1
        /\ UNCHANGED <<self, n, res>>

SetFieldN ==
    /\ res = NoCall
    /\ edits < MaxEdits
    /\ \E f \in Fields, v \in FieldInputs :
        /\ v # n[f]
        /\ n' = [n EXCEPT ![f] = v]
        /\ edits' = edits + 1
        /\ UNCHANGED <<self, m, res>>

Mul ==
    /\ res = NoCall
    /\ res' = [op |-> "mul", val |-> mul(m, n)]
    /\ UNCHANGED <<self, m, n, edits>>

TransformPoint ==
    /\ res = NoCall
    /\ \E p \in MatrixPointInputs :
        /\ res' = [op |-> "transform_point", p |-> p, val |-> transform_point(m, p)]
        /\ UNCHANGED <<self, m, n, edits>>

NextMatrix ==
    \/ SetFieldM
    \/ SetFieldN
    \/ Mul
    \/ TransformPoint

SpecMatrix == InitMatrix /\ [][NextMatrix]_vars

(***************************************************************************)
(* SpecChain: three matrices are drawn, each identity() with at most one   *)
(* field assigned, and multiplied grouped either way.                      *)
(***************************************************************************)
ChainInputs ==
    {identity} \cup { [identity EXCEPT ![f] = v] : f \in Fields, v \in FieldInputs }

AssignedFields(x) == {f \in Fields : x[f] # identity[f]}

InitChain ==
    /\ self = zero
    /\ m \in ChainInputs
    /\ n \in ChainInputs
    /\ edits = Cardinality(AssignedFields(m)) + Cardinality(AssignedFields(n))
    /\ res = NoCall

MulMul ==
    /\ res = NoCall
    /\ \E c \in ChainInputs :
        /\ res' = [op |-> "mul_mul", c |-> c,
                   left |-> mul(mul(m, n), c),
                   right |-> mul(m, mul(n, c))]
        /\ UNCHANGED <<self, m, n, edits>>

NextChain == MulMul

SpecChain == InitChain /\ [][NextChain]_vars

(***************************************************************************)
(* SpecOrtho: one call of ortho.                                           *)
(***************************************************************************)
OrthoInputs ==
    { NumCast_int(v) : v \in (0 - 1)..MaxOrtho } \cup { Fraction(1, 10) }

Ortho ==
    /\ res = NoCall
    /\ \E left \in OrthoInputs, right \in OrthoInputs, bottom \in OrthoInputs,
          top \in OrthoInputs, near \in OrthoInputs, far \in OrthoInputs :
        /\ res' = [op |-> "ortho", left |-> left, right |-> right,
                   bottom |-> bottom, top |-> top, near |-> near, far |-> far,
                   val |-> ortho(left, right, bottom, top, near, far)]
        /\ UNCHANGED <<self, m, n, edits>>

NextOrtho == Ortho

SpecOrtho == InitMatrix /\ [][NextOrtho]_vars

(***************************************************************************)
(* Reference notions the claims are stated with.                           *)
(***************************************************************************)
\* the far corner of a rect: origin + size
FarCorner(r) == Point2D(r.origin.x + r.size.width, r.origin.y + r.size.height)

Least(x, y) == CHOOSE z \in {x, y} : z <= x /\ z <= y

Greatest(x, y) == CHOOSE z \in {x, y} : z >= x /\ z >= y

\* the half-open intervals [lo1, lo1 + len1) and [lo2, lo2 + len2) share a value
HalfOpenOverlap(lo1, len1, lo2, len2) ==
    \E t \in PointCoords :
        /\ lo1 <= t /\ t < lo1 + len1
        /\ lo2 <= t /\ t < lo2 + len2

IntervalsOverlap(r, other) ==
    /\ HalfOpenOverlap(r.origin.x, r.size.width, other.origin.x, other.size.width)
    /\ HalfOpenOverlap(r.origin.y, r.size.height, other.origin.y, other.size.height)

CommonPoint(r, other) ==
    \E p \in PointInputs : contains(r, p) /\ contains(other, p)

PositiveSize(r) == r.size.width > 0 /\ r.size.height > 0

TestRect(x, y, w, h) == Rect(Point2D(x, y), Size2D(w, h))

\* a 2D affine transform embedded in a Matrix4: nothing feeds z or w back
\* into x and y, and w stays 1
Affine2D(x) ==
    /\ x.m13 = 0 /\ x.m14 = 0
    /\ x.m23 = 0 /\ x.m24 = 0
    /\ x.m43 = 0 /\ x.m44 = 1

(***************************************************************************)
(* C1                                                                      *)
(***************************************************************************)
\* C1 as stated: for all matrices m, n and points p,
\* m.mul(n).transform_point(p) equals n.transform_point(m.transform_point(p)):
\* m.mul(n) first applies m, then n.
C1_MulAppliesSelfFirst ==
    res.op = "mul" =>
        \A p \in MatrixPointInputs :
            transform_point(res.val, p) = transform_point(n, transform_point(m, p))

\* C1 amended: for all matrices m, all matrices n that are 2D affine (n's
\* m13, m14, m23, m24, m43 are 0 and its m44 is 1) and all points p, under
\* exact arithmetic m.mul(n).transform_point(p) equals
\* m.transform_point(n.transform_point(p)): m.mul(n) first applies the
\* argument n, then m.
C1_MulAppliesArgumentFirst ==
    (res.op = "mul" /\ Affine2D(n)) =>
        \A p \in MatrixPointInputs :
            transform_point(res.val, p) = transform_point(m, transform_point(n, p))

\* the amended order without the restriction on n, for comparison: it fails,
\* since transform_point reads only m11, m12, m21, m22, m41, m42 of a product
\* whose fields also take in n's m13, m14, m23, m24, m43, m44
C1_ArgumentFirstAnyMatrix ==
    res.op = "mul" =>
        \A p \in MatrixPointInputs :
            transform_point(res.val, p) = transform_point(m, transform_point(n, p))

\* two transforms whose order matters were multiplied, the argument 2D affine
C1_Witness ==
    /\ res.op = "mul"
    /\ Affine2D(n)
    /\ \E p \in MatrixPointInputs :
           transform_point(m, transform_point(n, p))
               # transform_point(n, transform_point(m, p))

(***************************************************************************)
(* C2                                                                      *)
(***************************************************************************)
\* C2: identity().mul(x) equals x and x.mul(identity()) equals x in all 16
\* fields, for every matrix x (of finite fields, multiplied exactly).
C2_IdentityTwoSided ==
    /\ (res.op = "mul" /\ m = identity) => \A f \in Fields : res.val[f] = n[f]
    /\ (res.op = "mul" /\ n = identity) => \A f \in Fields : res.val[f] = m[f]

\* identity() was multiplied by a matrix that differs from it in as many
\* fields as the model assigns, one of them off the diagonal
C2_Witness ==
    /\ res.op = "mul"
    /\ m = identity
    /\ edits = MaxEdits
    /\ Cardinality({f \in Fields : n[f] # identity[f]}) = MaxEdits
    /\ n.m12 # 0

(***************************************************************************)
(* C3                                                                      *)
(***************************************************************************)
\* C3 as stated: for rects of any size, a.intersects(b) is true iff the
\* half-open x intervals and the half-open y intervals of a and b overlap,
\* i.e. iff some point is contained in both.
C3_IntersectsIffOverlapAnySize ==
    res.op = "intersects" =>
        /\ res.val <=> IntervalsOverlap(self, res.other)
        /\ res.val <=> CommonPoint(self, res.other)

\* C3 amended: for rects a and b whose widths and heights are all strictly
\* positive, a.intersects(b) is true iff the half-open x intervals and the
\* half-open y intervals overlap, i.e. iff some point is contained in both;
\* rects that only share a boundary edge do not intersect.
C3_IntersectsIffOverlapPositive ==
    (res.op = "intersects" /\ PositiveSize(self) /\ PositiveSize(res.other)) =>
        /\ res.val <=> IntervalsOverlap(self, res.other)
        /\ res.val <=> CommonPoint(self, res.other)

\* two positive-size rects that share only a vertical boundary edge were tested
C3_Witness ==
    /\ res.op = "intersects"
    /\ PositiveSize(self) /\ PositiveSize(res.other)
    /\ max_x(self) = min_x(res.other)
    /\ min_y(self) = min_y(res.other)
    /\ res.val = FALSE

(***************************************************************************)
(* C4                                                                      *)
(***************************************************************************)
\* C4: a.intersection(b) is None exactly when a.intersects(b) is false;
\* otherwise it is Some(r) with r.origin the componentwise maximum of the two
\* origins and r.origin + r.size the componentwise minimum of the two far
\* corners; (0,0,10x20) with (5,15,10x10) gives (5,15,5x5) and with
\* (-5,-5,8x8) gives (0,0,3x3).
C4_IntersectionCorners ==
    /\ res.op = "intersection" =>
        /\ (res.val = None) <=> ~intersects(self, res.other)
        /\ res.val # None =>
            /\ res.val.some
            /\ res.val.val.origin.x = Greatest(self.origin.x, res.other.origin.x)
            /\ res.val.val.origin.y = Greatest(self.origin.y, res.other.origin.y)
            /\ FarCorner(res.val.val).x =
                   Least(FarCorner(self).x, FarCorner(res.other).x)
            /\ FarCorner(res.val.val).y =
                   Least(FarCorner(self).y, FarCorner(res.other).y)
    /\ intersection(TestRect(0, 0, 10, 20), TestRect(5, 15, 10, 10))
           = Some(TestRect(5, 15, 5, 5))
    /\ intersection(TestRect(0, 0, 10, 20), TestRect(0 - 5, 0 - 5, 8, 8))
           = Some(TestRect(0, 0, 3, 3))
    /\ intersection(TestRect(5, 15, 10, 10), TestRect(0 - 5, 0 - 5, 8, 8)) = None

\* a partial overlap was intersected: the result is smaller than both operands
C4_Witness ==
    /\ res.op = "intersection"
    /\ res.val # None
    /\ res.val.val # self
    /\ res.val.val # res.other
    /\ PositiveSize(res.val.val)

(***************************************************************************)
(* C5                                                                      *)
(***************************************************************************)
\* C5: whether or not a and b intersect, a.union(b) has as origin the
\* componentwise minimum of the two origins and as far corner the
\* componentwise maximum of the two far corners; (0,0,50x40) union
\* (20,-15,250x200) is (0,-15,270x200).
C5_UnionBoundingBox ==
    /\ res.op = "union" =>
        /\ res.val.origin.x = Least(self.origin.x, res.other.origin.x)
        /\ res.val.origin.y = Least(self.origin.y, res.other.origin.y)
        /\ FarCorner(res.val).x = Greatest(FarCorner(self).x, FarCorner(res.other).x)
        /\ FarCorner(res.val).y = Greatest(FarCorner(self).y, FarCorner(res.other).y)
    /\ union(TestRect(0, 0, 50, 40), TestRect(20, 0 - 15, 250, 200))
           = TestRect(0, 0 - 15, 270, 200)
    /\ union(TestRect(0, 0, 50, 40), TestRect(20, 20, 5, 5)) = TestRect(0, 0, 50, 40)
    /\ union(TestRect(0, 0, 50, 40), TestRect(0 - 15, 0 - 30, 200, 15))
           = TestRect(0 - 15, 0 - 30, 200, 70)

\* the union of two rects that do not intersect was taken, and it is neither
C5_Witness ==
    /\ res.op = "union"
    /\ PositiveSize(self) /\ PositiveSize(res.other)
    /\ ~intersects(self, res.other)
    /\ res.val # self
    /\ res.val # res.other

(***************************************************************************)
(* C6                                                                      *)
(***************************************************************************)
\* C6: r.contains(p) is true iff origin.x <= p.x < origin.x + width and
\* origin.y <= p.y < origin.y + height: points on the minimum edges are
\* contained, points on the maximum edges are not.
C6_ContainsHalfOpen ==
    /\ res.op = "contains" =>
        /\ res.val <=> /\ self.origin.x <= res.other.x
                       /\ res.other.x < self.origin.x + self.size.width
                       /\ self.origin.y <= res.other.y
                       /\ res.other.y < self.origin.y + self.size.height
        /\ (PositiveSize(self) /\ res.other = self.origin) => res.val
        /\ res.other.x = FarCorner(self).x => ~res.val
        /\ res.other.y = FarCorner(self).y => ~res.val
    /\ contains(TestRect(0 - 20, 15, 100, 200), Point2D(0 - 20, 15))
    /\ ~contains(TestRect(0 - 20, 15, 100, 200), Point2D(80, 15))
    /\ ~contains(TestRect(0 - 20, 15, 100, 200), Point2D(0 - 20, 215))

\* a point on the right edge of a positive-size rect was tested, within its rows
C6_Witness ==
    /\ res.op = "contains"
    /\ PositiveSize(self)
    /\ res.other.x = FarCorner(self).x
    /\ self.origin.y <= res.other.y /\ res.other.y < FarCorner(self).y
    /\ res.val = FALSE

(***************************************************************************)
(* C7                                                                      *)
(***************************************************************************)
Components(r) == {r.origin.x, r.origin.y, r.size.width, r.size.height}

Representable(v, target) == target = "f32" \/ v >= 0

AllRepresentable(r, target) == \A v \in Components(r) : Representable(v, target)

\* C7: no cast operation on a unit-tagged rect aborts: cast, as_f32 and
\* as_uint yield an explicit no-value result whenever a component is not
\* representable in the target type, and the componentwise cast rect when
\* all are.
C7_CastNeverAborts ==
    /\ res.op = "cast" =>
        /\ res.val # Panic
        /\ AllRepresentable(self, res.target) => res.val = Some(self)
        /\ ~AllRepresentable(self, res.target) => res.val = None
    /\ res.op = "as_f32" =>
        /\ res.val # Panic
        /\ AllRepresentable(self, "f32") => res.val \in {self, Some(self)}
        /\ ~AllRepresentable(self, "f32") => res.val = None
    /\ res.op = "as_uint" =>
        /\ res.val # Panic
        /\ AllRepresentable(self, "uint") => res.val \in {self, Some(self)}
        /\ ~AllRepresentable(self, "uint") => res.val = None

(***************************************************************************)
(* C8                                                                      *)
(***************************************************************************)
\* C8: r.inflate(dx, dy), for dx and dy of any sign, has origin
\* (r.origin.x - dx, r.origin.y - dy) and size (r.width + 2*dx,
\* r.height + 2*dy), a negative size included, so that 2*origin + size is
\* unchanged on each axis.
C8_InflateSymmetric ==
    /\ res.op = "inflate" =>
        /\ res.val.origin.x = self.origin.x - res.width
        /\ res.val.origin.y = self.origin.y - res.height
        /\ res.val.size.width = self.size.width + 2 * res.width
        /\ res.val.size.height = self.size.height + 2 * res.height
        /\ 2 * res.val.origin.x + res.val.size.width
               = 2 * self.origin.x + self.size.width
        /\ 2 * res.val.origin.y + res.val.size.height
               = 2 * self.origin.y + self.size.height
    /\ inflate(TestRect(0, 0, 10, 10), 10, 20) = TestRect(0 - 10, 0 - 20, 30, 50)
    /\ inflate(TestRect(0, 0, 10, 20), 0 - 2, 0 - 5) = TestRect(2, 5, 6, 10)

\* a rect of positive width was shrunk to a negative width, which was kept
C8_Witness ==
    /\ res.op = "inflate"
    /\ self.size.width > 0
    /\ res.width < 0
    /\ res.val.size.width < 0

(***************************************************************************)
(* C9                                                                      *)
(***************************************************************************)
\* C9: r.translate(d) has origin r.origin + d componentwise and the width
\* and height of r.
C9_TranslateKeepsSize ==
    /\ res.op = "translate" =>
        /\ res.val.origin.x = self.origin.x + res.other.x
        /\ res.val.origin.y = self.origin.y + res.other.y
        /\ res.val.size.width = self.size.width
        /\ res.val.size.height = self.size.height
    /\ translate(TestRect(0 - 10, 0 - 5, 50, 40), Point2D(0, 0 - 10))
           = TestRect(0 - 10, 0 - 15, 50, 40)

\* a rect was moved on both axes
C9_Witness ==
    /\ res.op = "translate"
    /\ res.other.x # 0
    /\ res.other.y # 0
    /\ res.val.origin # self.origin

(***************************************************************************)
(* C10                                                                     *)
(***************************************************************************)
\* C10: for a rect a of strictly positive width and height,
\* a.intersection(a) is Some(a).
C10_SelfIntersection ==
    (res.op = "intersection" /\ res.other = self /\ PositiveSize(self)) =>
        res.val = Some(self)

\* a rect of positive size was intersected with itself
C10_Witness ==
    /\ res.op = "intersection"
    /\ res.other = self
    /\ PositiveSize(self)
    /\ res.val # None

(***************************************************************************)
(* C11                                                                     *)
(***************************************************************************)
\* C11: a.union(b) equals b.union(a), in origin and in size, for all rects
\* a and b.
C11_UnionCommutative ==
    res.op = "union" =>
        /\ res.val.origin = union(res.other, self).origin
        /\ res.val.size = union(res.other, self).size

\* the union of two different rects was taken, neither of which is the union
C11_Witness ==
    /\ res.op = "union"
    /\ self.origin # res.other.origin
    /\ self.size # res.other.size
    /\ res.val # self
    /\ res.val # res.other

(***************************************************************************)
(* C13                                                                     *)
(***************************************************************************)
\* C13: whenever a.intersection(b) is Some(r), a point is contained in r if
\* and only if it is contained in a and in b, whatever the signs of the
\* sizes of a and b.
C13_IntersectionCoversCommonPoints ==
    (res.op = "intersection" /\ res.val # None) =>
        \A p \in PointInputs :
            contains(res.val.val, p) <=> (contains(self, p) /\ contains(res.other, p))

\* two rects that overlap in part were intersected: some point is in the
\* result, and some point of each operand is not
C13_Witness ==
    /\ res.op = "intersection"
    /\ res.val # None
    /\ \E p \in PointInputs : contains(res.val.val, p)
    /\ \E p \in PointInputs : contains(self, p) /\ ~contains(res.val.val, p)
    /\ \E p \in PointInputs : contains(res.other, p) /\ ~contains(res.val.val, p)

\* intersection also returned Some(r) for an operand of negative width: r
\* then has a negative width and contains no point, like the operand
C13_NegativeOperandReached ==
    /\ res.op = "intersection"
    /\ res.val # None
    /\ self.size.width < 0
    /\ res.val.val.size.width < 0

(***************************************************************************)
(* C14                                                                     *)
(***************************************************************************)
\* C14: under exact arithmetic a.mul(b).mul(c) equals a.mul(b.mul(c)) in all
\* 16 fields, for all matrices a, b and c.
C14_MulAssociative ==
    res.op = "mul_mul" => \A f \in Fields : res.left[f] = res.right[f]

\* three matrices, none of them identity() and neither neighbouring pair
\* commuting, were multiplied
C14_Witness ==
    /\ res.op = "mul_mul"
    /\ m # identity /\ n # identity /\ res.c # identity
    /\ mul(m, n) # mul(n, m)
    /\ mul(n, res.c) # mul(res.c, n)

(***************************************************************************)
(* C12                                                                     *)
(***************************************************************************)
\* the matrix test_ortho expects, to the digits it is written with
TestOrthoExpected ==
    Matrix4(NumCast_int(2), NumCast_int(0), NumCast_int(0), NumCast_int(0),
            NumCast_int(0), Fraction(22222222, 10000000), NumCast_int(0), NumCast_int(0),
            NumCast_int(0), NumCast_int(0), NumCast_int(0 - 1), NumCast_int(0),
            NumCast_int(0 - 1), Fraction(0 - 12222222, 10000000), NumCast_int(0),
            NumCast_int(1))

\* v is the quotient num / den
IsQuotient(v, num, den) == v # NonFinite /\ Float_mul(v, den) = num

\* C12: for a box with right # left, top # bottom and far # near,
\* ortho(left, right, bottom, top, near, far) has m11 = 2/(right-left),
\* m22 = 2/(top-bottom), m33 = -2/(far-near), m41 = -(right+left)/(right-left),
\* m42 = -(top+bottom)/(top-bottom), m43 = -(far+near)/(far-near), m44 = 1 and
\* every other field 0, so that transform_point maps (left, bottom) to (-1,-1)
\* and (right, top) to (1,1); ortho(0, 1, 0.1, 1, -1, 1) is approximately
\* Matrix4(2,0,0,0, 0,2.2222222,0,0, 0,0,-1,0, -1,-1.2222222,0,1).
C12_OrthoMatrix ==
    /\ (/\ res.op = "ortho"
        /\ res.right # res.left
        /\ res.top # res.bottom
        /\ res.far # res.near) =>
        /\ IsQuotient(res.val.m11, NumCast_int(2), Float_sub(res.right, res.left))
        /\ IsQuotient(res.val.m22, NumCast_int(2), Float_sub(res.top, res.bottom))
        /\ IsQuotient(res.val.m33, NumCast_int(0 - 2), Float_sub(res.far, res.near))
        /\ IsQuotient(res.val.m41, Float_neg(Float_add(res.right, res.left)),
                      Float_sub(res.right, res.left))
        /\ IsQuotient(res.val.m42, Float_neg(Float_add(res.top, res.bottom)),
                      Float_sub(res.top, res.bottom))
        /\ IsQuotient(res.val.m43, Float_neg(Float_add(res.far, res.near)),
                      Float_sub(res.far, res.near))
        /\ res.val.m44 = NumCast_int(1)
        /\ \A f \in Fields \ {"m11", "m22", "m33", "m41", "m42", "m43", "m44"} :
               res.val[f] = NumCast_int(0)
        /\ Float_transform_point(res.val, Point2D(res.left, res.bottom))
               = Point2D(NumCast_int(0 - 1), NumCast_int(0 - 1))
        /\ Float_transform_point(res.val, Point2D(res.right, res.top))
               = Point2D(NumCast_int(1), NumCast_int(1))
    /\ approx_eq(ortho(NumCast_int(0), NumCast_int(1), Fraction(1, 10), NumCast_int(1),
                       NumCast_int(0 - 1), NumCast_int(1)),
                 TestOrthoExpected)

\* ortho was called with the box of test_ortho
C12_Witness ==
    /\ res.op = "ortho"
    /\ res.left = NumCast_int(0) /\ res.right = NumCast_int(1)
    /\ res.bottom = Fraction(1, 10) /\ res.top = NumCast_int(1)
    /\ res.near = NumCast_int(0 - 1) /\ res.far = NumCast_int(1)
    /\ res.val.m22 = Fraction(20, 9)
    /\ res.val.m42 = Fraction(0 - 11, 9)

====
